---- MODULE Spec2Model ----
(***************************************************************************)
(* A model of scripts/"ribbons and badges scraper.py": the two extractors  *)
(* scrape_pokemon_ribbons and scrape_gym_badges and the __main__ driver.   *)
(* Text is modelled by TLA+ strings, character by character; an HTML       *)
(* document by the sequence of its elements in document order.             *)
(***************************************************************************)
EXTENDS Integers, Sequences, FiniteSets, TLC

VARIABLES
    pc,               \* position of the program
    response,         \* outcome of requests.get / raise_for_status
    soup,             \* the parsed document
    ribbons_data,     \* scrape_pokemon_ribbons: records accumulated
    badges_data,      \* scrape_gym_badges: records accumulated
    relevant_tables,  \* scrape_gym_badges: tables selected, in selection order
    current_element,  \* cursor of the outer sibling walk (0 = None)
    temp_element,     \* cursor of the inner h3 sweep (0 = None)
    table_idx,        \* index in relevant_tables of the table being read
    rows_read,        \* data rows read so far in this run
    row,              \* the table row last read
    badge_name,       \* local of the badge row loop
    full_info_text,   \* local of the badge row loop
    description,      \* local of the badge row loop
    returned,         \* value returned by the extractor (<<>> before it returns)
    stdout,           \* diagnostics printed, oldest first
    files,            \* output files: name -> state and content
    failed            \* an except clause or the missing-table return was taken

vars == <<pc, response, soup, ribbons_data, badges_data, relevant_tables,
          current_element, temp_element, table_idx, rows_read, row, badge_name,
          full_info_text, description, returned, stdout, files, failed>>

(***************************************************************************)
(* Bounds of the model.                                                    *)
(***************************************************************************)
MaxNodes == 3        \* text nodes / inline tags in one info cell (cleanup model)
MaxRibbonRows == 3   \* <tr> elements of the ribbon table, header included
MaxSiblings == 4     \* top-level elements of the badge page (selection model)
MaxBadgeSiblings == 3 \* top-level elements of the badge page (full run model)
MaxBadgeRows == 2    \* data rows read in one badge run

None == "None"

(***************************************************************************)
(* Python str operations, on TLA+ strings.                                 *)
(***************************************************************************)
CharAt(s, i) == SubSeq(s, i, i)

IsSpace(c) == c \in {" ", "\t", "\n", "\r"}

\* str.startswith
StartsWith(s, p) == Len(s) >= Len(p) /\ SubSeq(s, 1, Len(p)) = p

\* str.find: 0-based index of the leftmost occurrence at or after `from`, or -1
RECURSIVE FindFrom(_, _, _)
FindFrom(s, p, from) ==
    IF from + Len(p) > Len(s) THEN -1
    ELSE IF SubSeq(s, from + 1, from + Len(p)) = p THEN from
    ELSE FindFrom(s, p, from + 1)

Find(s, p) == FindFrom(s, p, 0)

\* `p in s`
Contains(s, p) == Find(s, p) # -1

\* str.replace(old, new, 1)
ReplaceFirst(s, old, new) ==
    LET i == Find(s, old) IN
    IF i = -1 THEN s
    ELSE SubSeq(s, 1, i) \o new \o SubSeq(s, i + Len(old) + 1, Len(s))

\* str.replace(old, new), old non-empty
RECURSIVE ReplaceAll(_, _, _)
ReplaceAll(s, old, new) ==
    LET i == Find(s, old) IN
    IF i = -1 \/ old = "" THEN s
    ELSE SubSeq(s, 1, i) \o new
         \o ReplaceAll(SubSeq(s, i + Len(old) + 1, Len(s)), old, new)

RECURSIVE LStrip(_)
LStrip(s) ==
    IF Len(s) > 0 /\ IsSpace(CharAt(s, 1)) THEN LStrip(SubSeq(s, 2, Len(s))) ELSE s

RECURSIVE RStrip(_)
RStrip(s) ==
    IF Len(s) > 0 /\ IsSpace(CharAt(s, Len(s))) THEN RStrip(SubSeq(s, 1, Len(s) - 1))
    ELSE s

\* str.strip()
Strip(s) == RStrip(LStrip(s))

\* length of the leading run of non-whitespace characters
RECURSIVE WordLen(_)
WordLen(s) ==
    IF Len(s) = 0 \/ IsSpace(CharAt(s, 1)) THEN 0
    ELSE 1 + WordLen(SubSeq(s, 2, Len(s)))

\* str.split() with no argument
RECURSIVE Split(_)
Split(s) ==
    LET t == LStrip(s) IN
    IF t = "" THEN <<>>
    ELSE LET n == WordLen(t) IN <<SubSeq(t, 1, n)>> \o Split(SubSeq(t, n + 1, Len(t)))

\* sep.join(parts)
RECURSIVE Join(_, _)
Join(parts, sep) ==
    IF Len(parts) = 0 THEN ""
    ELSE IF Len(parts) = 1 THEN parts[1]
    ELSE parts[1] \o sep \o Join(Tail(parts), sep)

\* s.split(sep, 1)[0]
SplitFirst(s, sep) ==
    LET i == Find(s, sep) IN IF i = -1 THEN s ELSE SubSeq(s, 1, i)

(***************************************************************************)
(* BeautifulSoup queries on a table cell.  A cell is the sequence of its   *)
(* children in document order: text nodes and inline tags holding text.    *)
(***************************************************************************)
Text(t)   == [tag |-> "text", id |-> FALSE, text |-> t]
Bold(t)   == [tag |-> "b",    id |-> FALSE, text |-> t]
Span(t)   == [tag |-> "span", id |-> FALSE, text |-> t]
SpanId(t) == [tag |-> "span", id |-> TRUE,  text |-> t]

\* the strings get_text(strip=True) keeps: each stripped, the empty ones dropped
RECURSIVE StrippedStrings(_)
StrippedStrings(cell) ==
    IF Len(cell) = 0 THEN <<>>
    ELSE LET t == Strip(cell[1].text) IN
         (IF t = "" THEN <<>> ELSE <<t>>) \o StrippedStrings(Tail(cell))

\* Tag.get_text(separator=sep, strip=True)
GetText(cell, sep) == Join(StrippedStrings(cell), sep)

\* cell.find(tag): index of the first child with that tag, 0 when there is none
FindTag(cell, tag, needId) ==
    LET hits == {i \in 1..Len(cell) :
                    cell[i].tag = tag /\ (needId => cell[i].id)} IN
    IF hits = {} THEN 0 ELSE CHOOSE i \in hits : \A j \in hits : i <= j

(***************************************************************************)
(* scrape_gym_badges, the name and the description of one row.             *)
(***************************************************************************)
UnnamedBadge == "Unnamed Badge"
AbilitiesMarker == "Abilities:"
GivenOutAt == "is given out at"

ResolveName(info_column) ==
    LET name_tag == FindTag(info_column, "b", FALSE)
        span_with_id == FindTag(info_column, "span", TRUE) IN
    IF name_tag # 0
    THEN ReplaceAll(GetText(<<info_column[name_tag]>>, ""), "The ", "")
    ELSE IF span_with_id # 0
    THEN ReplaceAll(GetText(<<info_column[span_with_id]>>, ""), "The ", "")
    ELSE UnnamedBadge

FullInfoText(info_column) == GetText(info_column, " ")

\* step (a): remove "The {name}", else the first occurrence of the name
StripName(full, name) ==
    IF name # "" /\ StartsWith(full, "The " \o name)
    THEN Strip(ReplaceFirst(full, "The " \o name, ""))
    ELSE IF name # "" THEN Strip(ReplaceFirst(full, name, ""))
    ELSE full

\* a step (b) that lost its elif branch
TruncateOnlyGivenOutAt(d) ==
    IF StartsWith(d, GivenOutAt) THEN Strip(SplitFirst(d, AbilitiesMarker)) ELSE d

\* step (b): keep what precedes "Abilities:"
TruncateAbilities(d) ==
    IF StartsWith(d, GivenOutAt) THEN Strip(SplitFirst(d, AbilitiesMarker))
    ELSE IF Contains(d, AbilitiesMarker) THEN Strip(SplitFirst(d, AbilitiesMarker))
    ELSE d

\* step (c): ' '.join(description.split())
CollapseSpaces(d) == Join(Split(d), " ")

CleanDescription(full, name) ==
    CollapseSpaces(TruncateAbilities(StripName(full, name)))

(***************************************************************************)
(* The cleanup chain run step by step on one info cell.                    *)
(***************************************************************************)
BoulderText ==
    "The Boulder Badge is given out at Pewter City Gym. Abilities: Use Strength."

CleanNodes ==
    { Bold("The Boulder Badge"), Bold("Boulder Badge"), Bold("X"), Bold(""),
      SpanId("The Cascade Badge"),
      Text("is given out at Pewter City Gym."),
      Text("Abilities: Use Strength."),
      Text("AbilXities: Cut Abilities: Fly"),
      Text(" is given  out at\nCerulean "),
      Text("The Cascade Badge lets X win") }

RECURSIVE SeqsUpTo(_, _)
SeqsUpTo(S, n) ==
    IF n = 0 THEN {<<>>}
    ELSE LET shorter == SeqsUpTo(S, n - 1) IN
         shorter \cup {Append(q, x) : q \in {r \in shorter : Len(r) = n - 1}, x \in S}

NoImg == [present |-> FALSE, has_src |-> FALSE, src |-> "",
          has_data_src |-> FALSE, data_src |-> ""]
ImgSrc(u) == [present |-> TRUE, has_src |-> TRUE, src |-> u,
              has_data_src |-> FALSE, data_src |-> ""]
ImgLazy(d, u) == [present |-> TRUE, has_src |-> TRUE, src |-> u,
                  has_data_src |-> TRUE, data_src |-> d]
ImgBare == [present |-> TRUE, has_src |-> FALSE, src |-> "",
            has_data_src |-> FALSE, data_src |-> ""]

NoRow == [ncols |-> 0, img |-> NoImg, name |-> <<>>, info |-> <<>>]

\* an output file before the run: not there, or left by an earlier run
OldFiles == {"absent", "stale"}
NoFiles(b, r) ==
    [pokemon_gym_badges |-> [state |-> b, content |-> <<>>],
     pokemon_ribbons    |-> [state |-> r, content |-> <<>>]]

Idle ==
    /\ response = None
    /\ soup = <<>>
    /\ ribbons_data = <<>>
    /\ badges_data = <<>>
    /\ relevant_tables = <<>>
    /\ current_element = 0
    /\ temp_element = 0
    /\ table_idx = 0
    /\ rows_read = 0
    /\ returned = <<>>
    /\ stdout = <<>>
    /\ failed = FALSE

InitClean ==
    /\ Idle
    /\ files = NoFiles("absent", "absent")
    /\ pc = "cell"
    /\ \E cell \in SeqsUpTo(CleanNodes, MaxNodes) :
           /\ Len(cell) >= 1
           /\ row = [ncols |-> 2, img |-> NoImg, name |-> <<>>, info |-> cell]
    /\ badge_name = ""
    /\ full_info_text = ""
    /\ description = ""

UnchangedRun ==
    UNCHANGED <<response, soup, ribbons_data, badges_data, relevant_tables,
                current_element, temp_element, table_idx, rows_read, returned,
                stdout, files, failed>>

ExtractName ==
    /\ pc = "cell"
    /\ badge_name' = ResolveName(row.info)
    /\ pc' = "named"
    /\ UNCHANGED <<row, full_info_text, description>>
    /\ UnchangedRun

ExtractFullText ==
    /\ pc = "named"
    /\ full_info_text' = FullInfoText(row.info)
    /\ description' = FullInfoText(row.info)
    /\ pc' = "text"
    /\ UNCHANGED <<row, badge_name>>
    /\ UnchangedRun

StepStripName ==
    /\ pc = "text"
    /\ description' = StripName(full_info_text, badge_name)
    /\ pc' = "stripped"
    /\ UNCHANGED <<row, badge_name, full_info_text>>
    /\ UnchangedRun

StepTruncate ==
    /\ pc = "stripped"
    /\ description' = TruncateAbilities(description)
    /\ pc' = "truncated"
    /\ UNCHANGED <<row, badge_name, full_info_text>>
    /\ UnchangedRun

StepCollapse ==
    /\ pc = "truncated"
    /\ description' = CollapseSpaces(description)
    /\ pc' = "cleaned"
    /\ UNCHANGED <<row, badge_name, full_info_text>>
    /\ UnchangedRun

NextClean ==
    \/ ExtractName
    \/ ExtractFullText
    \/ StepStripName
    \/ StepTruncate
    \/ StepCollapse

SpecClean == InitClean /\ [][NextClean]_vars

(***************************************************************************)
(* requests.get and raise_for_status: the page, a transport error, or a    *)
(* non-success status (both are RequestException).                         *)
(***************************************************************************)
Outcomes == {"ok", "connection_error", "http_error"}

Last(q) == q[Len(q)]

(***************************************************************************)
(* scrape_pokemon_ribbons.  The document is the dextable, if any, as the   *)
(* sequence of its <tr> elements; a row holds its number of <td> cells,    *)
(* the image of its first cell and the children of its second and third.   *)
(***************************************************************************)
RibbonBase == "https://www.serebii.net/games/"

RibbonImages ==
    { NoImg, ImgBare, ImgSrc("http://www.serebii.net/r0.png"),
      ImgSrc("/img/r1.png"), ImgSrc("ribbons/r2.gif") }

RibbonNames == { <<Text(" Champion Ribbon ")>>, <<Text(" \n")>> }

RibbonDescription == <<Text("Won the "), Bold("Hoenn"), Text("\n League. ")>>

RibbonRows ==
    { [ncols |-> 2, img |-> ImgBare, name |-> <<Text("Ribbon")>>, info |-> <<>>] }
    \cup { [ncols |-> 3, img |-> i, name |-> n, info |-> RibbonDescription] :
              i \in RibbonImages, n \in RibbonNames }

RibbonPages ==
    { [dextable |-> FALSE, rows |-> <<>>] }
    \cup { [dextable |-> TRUE, rows |-> r] : r \in SeqsUpTo(RibbonRows, MaxRibbonRows) }

\* a row loop that does not skip the header row
DataRowsWithHeader(rows) == rows

\* rows = ribbon_table.find_all('tr')[1:]
DataRows(rows) == IF Len(rows) = 0 THEN <<>> ELSE Tail(rows)

\* len(columns) >= 3
EnoughRibbonColumns(r) == r.ncols >= 3

\* an image URL that is prefixed whether it is absolute or not
RibbonImageUrlAlwaysPrefixed(img) ==
    IF img.present /\ img.has_src THEN RibbonBase \o img.src ELSE None

\* the image URL of a ribbon row; None when the cell has no img with a src
RibbonImageUrl(img) ==
    IF img.present /\ img.has_src
    THEN IF ~StartsWith(img.src, "http") THEN RibbonBase \o img.src ELSE img.src
    ELSE None

RibbonRecord(r) ==
    [name |-> GetText(r.name, ""),
     image_url |-> RibbonImageUrl(r.img),
     description |-> GetText(r.info, " ")]

InitRibbons ==
    /\ Idle
    /\ pc = "request"
    /\ \E b \in {"absent", "written"}, r \in OldFiles : files = NoFiles(b, r)
    /\ row = NoRow
    /\ badge_name = ""
    /\ full_info_text = ""
    /\ description = ""

UnchangedBadgeLocals ==
    UNCHANGED <<badges_data, relevant_tables, current_element, temp_element,
                table_idx, badge_name, full_info_text, description>>

\* lines 19-21 and the except clause of lines 62-63
RibbonRequest ==
    /\ pc = "request"
    /\ \E o \in Outcomes :
          /\ response' = o
          /\ IF o = "ok"
             THEN /\ \E page \in RibbonPages : soup' = page
                  /\ pc' = "parsed"
                  /\ UNCHANGED <<returned, stdout, failed>>
             ELSE /\ soup' = soup
                  /\ stdout' = Append(stdout, "Error making request")
                  /\ failed' = TRUE
                  /\ returned' = ribbons_data
                  /\ pc' = "returned"
    /\ UNCHANGED <<ribbons_data, rows_read, row, files>>
    /\ UnchangedBadgeLocals

\* lines 24-31
RibbonFindTable ==
    /\ pc = "parsed"
    /\ IF ~soup.dextable
       THEN /\ stdout' = Append(stdout, "Error: Could not find the ribbon table.")
            /\ failed' = TRUE
            /\ returned' = <<>>
            /\ pc' = "returned"
       ELSE /\ pc' = "rows"
            /\ UNCHANGED <<stdout, failed, returned>>
    /\ UNCHANGED <<response, soup, ribbons_data, rows_read, row, files>>
    /\ UnchangedBadgeLocals

\* one iteration of the loop of lines 33-60
RibbonRow ==
    /\ pc = "rows"
    /\ rows_read < Len(DataRows(soup.rows))
    /\ LET r == DataRows(soup.rows)[rows_read + 1] IN
          /\ row' = r
          /\ ribbons_data' = IF EnoughRibbonColumns(r)
                             THEN Append(ribbons_data, RibbonRecord(r))
                             ELSE ribbons_data
    /\ rows_read' = rows_read + 1
    /\ UNCHANGED <<pc, response, soup, returned, stdout, files, failed>>
    /\ UnchangedBadgeLocals

\* line 67
RibbonReturn ==
    /\ pc = "rows"
    /\ rows_read = Len(DataRows(soup.rows))
    /\ returned' = ribbons_data
    /\ pc' = "returned"
    /\ UNCHANGED <<response, soup, ribbons_data, rows_read, row, stdout, files, failed>>
    /\ UnchangedBadgeLocals

\* lines 216-229
DriverRibbons ==
    /\ pc = "returned"
    /\ IF returned # <<>>
       THEN /\ files' = [files EXCEPT !.pokemon_ribbons =
                            [state |-> "written", content |-> returned]]
            /\ stdout' = stdout \o <<"json", "Ribbon data saved to pokemon_ribbons.json">>
       ELSE /\ files' = files
            /\ stdout' = Append(stdout, "No ribbon data was scraped.")
    /\ pc' = "done"
    /\ UNCHANGED <<response, soup, ribbons_data, rows_read, row, returned, failed>>
    /\ UnchangedBadgeLocals

NextRibbons ==
    \/ RibbonRequest
    \/ RibbonFindTable
    \/ RibbonRow
    \/ RibbonReturn
    \/ DriverRibbons

SpecRibbons == InitRibbons /\ [][NextRibbons]_vars

(***************************************************************************)
(* scrape_gym_badges.  The document is the sequence of the top-level       *)
(* elements of the page body; a <div> wraps at most one element.  A node   *)
(* is named by its place in document order: 2*i for the i-th top-level     *)
(* element, 2*i + 1 for the element wrapped by it; 0 is Python's None.     *)
(***************************************************************************)
BadgeBase == "https://pokemon.fandom.com"

Leaf(tag, id, cls, text) ==
    [tag |-> tag, id |-> id, cls |-> cls, text |-> text, inner |-> <<>>]
Heading2(id) == Leaf("h2", id, "", "")
Heading3 == Leaf("h3", "", "", "")
Table(cls) == Leaf("table", "", cls, "")
Paragraph(text) == Leaf("p", "", "", text)
Div(e) == [tag |-> "div", id |-> "", cls |-> "", text |-> "", inner |-> <<e>>]

PaldeaText == " Paldea has eight Gyms. Abilities: none. "

PageElements ==
    { Heading2("Indigo_League"), Heading2("Anime_exclusive"),
      Heading2("Paldea_League"), Heading2("Johto_League"), Heading3,
      Table("prettytable"), Table("wikitable"), Paragraph(PaldeaText),
      Div(Heading2("Anime_exclusive")), Div(Table("prettytable")) }

IsTop(n) == n % 2 = 0

Nodes(doc) ==
    {2 * i : i \in 1..Len(doc)}
    \cup {2 * i + 1 : i \in {j \in 1..Len(doc) : Len(doc[j].inner) = 1}}

Elem(doc, n) == IF IsTop(n) THEN doc[n \div 2] ELSE doc[n \div 2].inner[1]

\* the nodes of a set, in document order
RECURSIVE InOrder(_)
InOrder(S) ==
    IF S = {} THEN <<>>
    ELSE LET m == CHOOSE x \in S : \A y \in S : x <= y IN <<m>> \o InOrder(S \ {m})

\* a find_all that looks at the top-level elements only (recursive=False)
FindTopLevelTables(doc, cls) ==
    InOrder({n \in Nodes(doc) :
                IsTop(n) /\ Elem(doc, n).tag = "table" /\ Elem(doc, n).cls = cls})

\* soup.find_all('table', class_=cls)
FindAllTables(doc, cls) ==
    InOrder({n \in Nodes(doc) : Elem(doc, n).tag = "table" /\ Elem(doc, n).cls = cls})

\* soup.find('h2', id=id)
FindHeading(doc, id) ==
    LET hits == InOrder({n \in Nodes(doc) :
                            Elem(doc, n).tag = "h2" /\ Elem(doc, n).id = id}) IN
    IF hits = <<>> THEN 0 ELSE hits[1]

\* element.find_next_sibling()
NextSibling(doc, n) == IF IsTop(n) /\ n \div 2 < Len(doc) THEN n + 2 ELSE 0

\* element.find_next_sibling('p')
RECURSIVE NextSiblingTag(_, _, _)
NextSiblingTag(doc, n, tag) ==
    LET m == NextSibling(doc, n) IN
    IF m = 0 THEN 0
    ELSE IF Elem(doc, m).tag = tag THEN m
    ELSE NextSiblingTag(doc, m, tag)

\* Tag.__ne__: two tags are equal when name, attributes and contents are
SameTag(doc, n, m) == Elem(doc, n) = Elem(doc, m)

\* the test of the outer while loop, line 101
WalkContinues(doc, cur) ==
    cur # 0 /\ ~SameTag(doc, cur, FindHeading(doc, "Anime_exclusive"))

\* the test of the inner while loop, line 108
SweepContinues(doc, tmp) ==
    tmp # 0 /\ Elem(doc, tmp).tag # "h2" /\ Elem(doc, tmp).tag # "h3"

\* lines 102-103 and 109-110
WithTable(tables, doc, n) ==
    IF Elem(doc, n).tag = "table" THEN Append(tables, n) ELSE tables

InitBadgeLocals ==
    /\ row = NoRow
    /\ badge_name = ""
    /\ full_info_text = ""
    /\ description = ""

UnchangedRows ==
    UNCHANGED <<ribbons_data, badges_data, table_idx, rows_read, row, badge_name,
                full_info_text, description, files>>

\* lines 83-85 and the except clause of lines 194-195
BadgeRequest(pages) ==
    /\ pc = "request"
    /\ \E o \in Outcomes :
          /\ response' = o
          /\ IF o = "ok"
             THEN /\ \E page \in pages : soup' = page
                  /\ pc' = "parsed"
                  /\ UNCHANGED <<returned, stdout, failed>>
             ELSE /\ soup' = soup
                  /\ stdout' = Append(stdout, "Error making request")
                  /\ failed' = TRUE
                  /\ returned' = badges_data
                  /\ pc' = "returned"
    /\ UNCHANGED <<relevant_tables, current_element, temp_element>>
    /\ UnchangedRows

\* lines 89-100 and 113-114
SelectTables ==
    /\ pc = "parsed"
    /\ LET content_tables == FindAllTables(soup, "prettytable")
           anime_exclusive_heading == FindHeading(soup, "Anime_exclusive")
           start_element == FindHeading(soup, "Indigo_League") IN
       IF anime_exclusive_heading # 0
       THEN /\ relevant_tables' = <<>>
            /\ IF start_element # 0
               THEN current_element' = start_element /\ pc' = "walk"
               ELSE current_element' = current_element /\ pc' = "tables"
       ELSE /\ relevant_tables' = content_tables
            /\ current_element' = current_element
            /\ pc' = "tables"
    /\ UNCHANGED <<response, soup, temp_element, returned, stdout, failed>>
    /\ UnchangedRows

\* lines 101-107: one iteration of the outer loop, up to the start of a sweep
WalkStep ==
    /\ pc = "walk"
    /\ WalkContinues(soup, current_element)
    /\ relevant_tables' = WithTable(relevant_tables, soup, current_element)
    /\ LET next == NextSibling(soup, current_element) IN
          /\ current_element' = next
          /\ IF next # 0 /\ Elem(soup, next).tag = "h3"
             THEN temp_element' = NextSibling(soup, next) /\ pc' = "sweep"
             ELSE temp_element' = temp_element /\ pc' = "walk"
    /\ UNCHANGED <<response, soup, returned, stdout, failed>>
    /\ UnchangedRows

\* lines 108-111: one iteration of the inner loop
SweepStep ==
    /\ pc = "sweep"
    /\ SweepContinues(soup, temp_element)
    /\ relevant_tables' = WithTable(relevant_tables, soup, temp_element)
    /\ temp_element' = NextSibling(soup, temp_element)
    /\ UNCHANGED <<pc, response, soup, current_element, returned, stdout, failed>>
    /\ UnchangedRows

\* line 112
SweepEnd ==
    /\ pc = "sweep"
    /\ ~SweepContinues(soup, temp_element)
    /\ current_element' = temp_element
    /\ pc' = "walk"
    /\ UNCHANGED <<response, soup, relevant_tables, temp_element, returned, stdout,
                   failed>>
    /\ UnchangedRows

\* the outer loop ends
WalkEnd ==
    /\ pc = "walk"
    /\ ~WalkContinues(soup, current_element)
    /\ pc' = "tables"
    /\ UNCHANGED <<response, soup, relevant_tables, current_element, temp_element,
                   returned, stdout, failed>>
    /\ UnchangedRows

SelectPages == SeqsUpTo(PageElements, MaxSiblings)

InitSelect ==
    /\ Idle
    /\ files = NoFiles("absent", "absent")
    /\ pc = "request"
    /\ InitBadgeLocals

NextSelect ==
    \/ BadgeRequest(SelectPages)
    \/ SelectTables
    \/ WalkStep
    \/ SweepStep
    \/ SweepEnd
    \/ WalkEnd

SpecSelect == InitSelect /\ [][NextSelect]_vars

(***************************************************************************)
(* scrape_gym_badges, the row loop of lines 116-193, and the driver.  The  *)
(* rows of a table are read one at a time as the loop meets them.          *)
(***************************************************************************)
BoulderCell ==
    <<Bold("The Boulder Badge"), Text(" is given out at Pewter City Gym. "),
      Text("Abilities: Use Strength.")>>

BadgeRows ==
    { [ncols |-> 2, img |-> ImgLazy("/images/boulder.png", "data:image/gif;base64"),
       name |-> <<>>, info |-> BoulderCell],
      [ncols |-> 2, img |-> ImgSrc("https://static.wikia.net/cascade.png"),
       name |-> <<>>, info |-> <<SpanId("The Cascade Badge"), Text("lets Cut be used.")>>],
      [ncols |-> 2, img |-> NoImg,
       name |-> <<>>, info |-> <<Span("Cortondo Gym"), Text("Bug type. Abilities: none.")>>],
      [ncols |-> 2, img |-> ImgBare,
       name |-> <<>>, info |-> <<Bold(" "), Text("Thunder Badge")>>],
      [ncols |-> 1, img |-> NoImg,
       name |-> <<>>, info |-> <<>>] }

\* the image URL of a badge row, lines 127-137
BadgeImageUrl(img) ==
    LET image_url == IF img.present /\ img.has_data_src THEN img.data_src
                     ELSE IF img.present /\ img.has_src THEN img.src
                     ELSE None IN
    IF image_url # None /\ image_url # "" /\ ~StartsWith(image_url, "http")
    THEN BadgeBase \o image_url
    ELSE image_url

\* len(columns) >= 2
EnoughBadgeColumns(r) == r.ncols >= 2

\* soup.find('h2', id='Paldea_League').find_next_sibling('p'), on a heading found
PaldeaParagraph(doc) == NextSiblingTag(doc, FindHeading(doc, "Paldea_League"), "p")

\* paldea_desc_p.get_text(strip=True)
ParagraphText(doc, n) == GetText(<<Text(Elem(doc, n).text)>>, "")

\* the description of lines 180-187, on a page that has the Paldea heading
FinalDescription(doc, name, full, cleaned) ==
    IF name = UnnamedBadge
    THEN IF PaldeaParagraph(doc) # 0
         THEN ParagraphText(doc, PaldeaParagraph(doc))
         ELSE full
    ELSE cleaned

\* line 183 raises AttributeError: None has no find_next_sibling
PaldeaLookupRaises(doc, name) ==
    name = UnnamedBadge /\ FindHeading(doc, "Paldea_League") = 0

BadgePages == SeqsUpTo(PageElements, MaxBadgeSiblings)

InitBadges ==
    /\ Idle
    /\ \E b \in OldFiles : files = NoFiles(b, "absent")
    /\ pc = "request"
    /\ InitBadgeLocals

UnchangedWalk ==
    UNCHANGED <<response, soup, ribbons_data, relevant_tables, current_element,
                temp_element>>

\* line 116: the for loop takes its first table
FirstTable ==
    /\ pc = "tables"
    /\ table_idx = 0
    /\ table_idx' = 1
    /\ UNCHANGED <<pc, badges_data, rows_read, row, badge_name, full_info_text,
                   description, returned, stdout, files, failed>>
    /\ UnchangedWalk

\* lines 120-193: one data row of the current table
ReadRow ==
    /\ pc = "tables"
    /\ table_idx \in 1..Len(relevant_tables)
    /\ rows_read < MaxBadgeRows
    /\ \E r \in BadgeRows :
          /\ row' = r
          /\ rows_read' = rows_read + 1
          /\ IF ~EnoughBadgeColumns(r)
             THEN UNCHANGED <<pc, badges_data, badge_name, full_info_text, description,
                              returned, stdout, failed>>
             ELSE LET name == ResolveName(r.info)
                      full == FullInfoText(r.info)
                      cleaned == CleanDescription(full, name) IN
                  /\ badge_name' = name
                  /\ full_info_text' = full
                  /\ IF PaldeaLookupRaises(soup, name)
                     THEN /\ description' = cleaned
                          /\ stdout' = Append(stdout, "An unexpected error occurred")
                          /\ failed' = TRUE
                          /\ returned' = badges_data
                          /\ pc' = "returned"
                          /\ UNCHANGED badges_data
                     ELSE /\ description' = FinalDescription(soup, name, full, cleaned)
                          /\ badges_data' = Append(badges_data,
                                 [name |-> name,
                                  image_url |-> BadgeImageUrl(r.img),
                                  description |-> description'])
                          /\ UNCHANGED <<pc, returned, stdout, failed>>
    /\ UNCHANGED <<table_idx, files>>
    /\ UnchangedWalk

\* the current table has no further row: on to the next table
NextTable ==
    /\ pc = "tables"
    /\ table_idx \in 1..Len(relevant_tables)
    /\ table_idx' = table_idx + 1
    /\ UNCHANGED <<pc, badges_data, rows_read, row, badge_name, full_info_text,
                   description, returned, stdout, files, failed>>
    /\ UnchangedWalk

\* line 199
BadgeReturn ==
    /\ pc = "tables"
    /\ table_idx > Len(relevant_tables)
    /\ returned' = badges_data
    /\ pc' = "returned"
    /\ UNCHANGED <<badges_data, table_idx, rows_read, row, badge_name, full_info_text,
                   description, stdout, files, failed>>
    /\ UnchangedWalk

\* lines 202-213
DriverBadges ==
    /\ pc = "returned"
    /\ IF returned # <<>>
       THEN /\ files' = [files EXCEPT !.pokemon_gym_badges =
                            [state |-> "written", content |-> returned]]
            /\ stdout' = stdout \o <<"json", "Gym badge data saved to pokemon_gym_badges.json">>
       ELSE /\ files' = files
            /\ stdout' = Append(stdout, "No gym badge data was scraped.")
    /\ pc' = "done"
    /\ UNCHANGED <<badges_data, table_idx, rows_read, row, badge_name, full_info_text,
                   description, returned, failed>>
    /\ UnchangedWalk

NextBadges ==
    \/ BadgeRequest(BadgePages)
    \/ SelectTables
    \/ WalkStep
    \/ SweepStep
    \/ SweepEnd
    \/ WalkEnd
    \/ FirstTable
    \/ ReadRow
    \/ NextTable
    \/ BadgeReturn
    \/ DriverBadges

SpecBadges == InitBadges /\ [][NextBadges]_vars

(***************************************************************************)
(* Properties.                                                             *)
(***************************************************************************)
Returned == pc \in {"returned", "done"}

\* the k-th smallest element of a set of numbers
Kth(S, k) == CHOOSE i \in S : Cardinality({j \in S : j < i}) = k - 1

StrictlyIncreasing(q) == \A k \in 1..(Len(q) - 1) : q[k] < q[k + 1]

Range(q) == {q[k] : k \in 1..Len(q)}

\* p occurs in s at the 1-based position i
Occurs(s, p, i) ==
    i >= 1 /\ i + Len(p) - 1 <= Len(s) /\ SubSeq(s, i, i + Len(p) - 1) = p

Has(s, p) == \E i \in 1..Len(s) : Occurs(s, p, i)

FirstAt(s, p, i) == Occurs(s, p, i) /\ \A j \in 1..(i - 1) : ~Occurs(s, p, j)

\* d is s without its leading and trailing whitespace
Trimmed(d, s) ==
    LET inked == {k \in 1..Len(s) : ~IsSpace(CharAt(s, k))} IN
    IF inked = {} THEN d = ""
    ELSE \E i \in inked, j \in inked :
            /\ \A k \in inked : i <= k /\ k <= j
            /\ d = SubSeq(s, i, j)

\* the characters of s that are not whitespace
RECURSIVE Squeezed(_)
Squeezed(s) ==
    IF s = "" THEN ""
    ELSE (IF IsSpace(CharAt(s, 1)) THEN "" ELSE CharAt(s, 1))
         \o Squeezed(SubSeq(s, 2, Len(s)))

\* places of s where a word ends and another word follows later
WordBreaks(s) ==
    {i \in 1..(Len(s) - 1) :
        /\ ~IsSpace(CharAt(s, i))
        /\ IsSpace(CharAt(s, i + 1))
        /\ \E j \in (i + 2)..Len(s) : ~IsSpace(CharAt(s, j))}

\* ----------------------------------------------------------------- C1
\* the rows of the ribbon table after the header row that have >= 3 cells
QualifyingRows == {i \in 2..Len(soup.rows) : soup.rows[i].ncols >= 3}

\* C1: when the ribbons page holds the data table, the extractor returns one
\* record for each row after the header row that has at least 3 cells, in
\* document order; the header row and the shorter rows give no record.
C1_OneRecordPerDataRow ==
    (Returned /\ response = "ok" /\ soup.dextable) =>
        /\ Len(returned) = Cardinality(QualifyingRows)
        /\ \A k \in 1..Len(returned) :
              returned[k] = RibbonRecord(soup.rows[Kth(QualifyingRows, k)])

C1_Witness ==
    /\ pc = "done"
    /\ response = "ok"
    /\ soup.dextable
    /\ Len(soup.rows) = 3
    /\ \A i \in 1..3 : soup.rows[i].ncols >= 3
    /\ Len(returned) = 2
    /\ returned[1] # returned[2]

\* ----------------------------------------------------------------- C2
RibbonRowWithSource ==
    /\ pc = "rows"
    /\ rows_read > 0
    /\ row.ncols >= 3
    /\ row.img.present
    /\ row.img.has_src

\* C2 as stated: the image URL of a ribbon row is its source when the source
\* starts with "http", and "https://www.serebii.net/games" followed by the
\* source otherwise.
C2_PrefixWithoutSlash ==
    RibbonRowWithSource =>
        Last(ribbons_data).image_url =
            IF Occurs(row.img.src, "http", 1) THEN row.img.src
            ELSE "https://www.serebii.net/games" \o row.img.src

\* C2 as amended: the image URL of a ribbon row is its source when the source
\* starts with "http", and "https://www.serebii.net/games/" (with the
\* trailing slash) followed by the source otherwise.
C2_PrefixWithSlash ==
    RibbonRowWithSource =>
        Last(ribbons_data).image_url =
            IF Occurs(row.img.src, "http", 1) THEN row.img.src
            ELSE "https://www.serebii.net/games/" \o row.img.src

C2_Witness ==
    /\ RibbonRowWithSource
    /\ row.img.src = "/img/r1.png"
    /\ Last(ribbons_data).image_url = "https://www.serebii.net/games//img/r1.png"

\* ----------------------------------------------------------------- C3
\* C3: an extractor in whose run a failure occurred returns the empty list.
C3_EmptyListOnFailure ==
    (Returned /\ failed) => returned = <<>>

\* ----------------------------------------------------------------- C4
\* the first paragraph that follows the first "Paldea League" heading
PaldeaParagraphs ==
    {n \in Nodes(soup) :
        /\ IsTop(n)
        /\ Elem(soup, n).tag = "p"
        /\ \E h \in Nodes(soup) :
              /\ Elem(soup, h) = Heading2("Paldea_League")
              /\ \A g \in Nodes(soup) : Elem(soup, g) = Heading2("Paldea_League") => h <= g
              /\ IsTop(h)
              /\ h < n}

\* C4: a row whose name resolved to "Unnamed Badge" is emitted, with the text
\* of the first paragraph after the "Paldea League" heading as description
\* when that paragraph can be found, and with the unprocessed text of its
\* info cell when it cannot (no such paragraph, or no such heading).
C4_UnnamedBadgeDescription ==
    badge_name = UnnamedBadge =>
        /\ badges_data # <<>>
        /\ Last(badges_data).name = UnnamedBadge
        /\ IF PaldeaParagraphs # {}
           THEN Trimmed(Last(badges_data).description,
                        Elem(soup, Kth(PaldeaParagraphs, 1)).text)
           ELSE Last(badges_data).description = full_info_text

\* ----------------------------------------------------------------- C5
\* C5: the badge file is written only for a non-empty result, and a run in
\* which a failure occurred never creates or overwrites it.
C5_NoFileAfterFailure ==
    /\ (pc = "done" /\ returned = <<>>) => files.pokemon_gym_badges.state \in OldFiles
    /\ failed => files.pokemon_gym_badges.state \in OldFiles

\* ----------------------------------------------------------------- C6
\* the info cell holds no bold text and no text in a span with an id
NoExtractableName(cell) ==
    \A i \in 1..Len(cell) :
        (cell[i].tag = "b" \/ (cell[i].tag = "span" /\ cell[i].id))
            => Squeezed(cell[i].text) = ""

\* C6: every emitted record has a non-empty name, and a badge row from which
\* no name can be extracted is emitted with the name "Unnamed Badge".
C6_NamesNotEmpty ==
    /\ \A k \in 1..Len(badges_data) : badges_data[k].name # ""
    /\ (rows_read > 0 /\ row.ncols >= 2 /\ NoExtractableName(row.info)) =>
          /\ badges_data # <<>>
          /\ Last(badges_data).name = UnnamedBadge

\* ----------------------------------------------------------------- C7
\* the sibling tables after the first-league heading and before the
\* anime-exclusive heading, both taken as the first of their kind
TablesBetweenHeadings ==
    LET start == {n \in Nodes(soup) : Elem(soup, n) = Heading2("Indigo_League")}
        anime == {n \in Nodes(soup) : Elem(soup, n) = Heading2("Anime_exclusive")} IN
    {n \in Nodes(soup) :
        /\ IsTop(n)
        /\ Elem(soup, n).tag = "table"
        /\ start # {}
        /\ anime # {}
        /\ Kth(start, 1) < n
        /\ n < Kth(anime, 1)}

AnimeHeadingPresent ==
    \E n \in Nodes(soup) : Elem(soup, n) = Heading2("Anime_exclusive")

\* C7: when the anime-exclusive heading is present, the tables selected are
\* exactly the sibling tables after the first-league heading and before the
\* anime-exclusive heading, each once, in document order.
C7_OnlyTablesBetweenHeadings ==
    (pc = "tables" /\ AnimeHeadingPresent) =>
        /\ Range(relevant_tables) = TablesBetweenHeadings
        /\ StrictlyIncreasing(relevant_tables)

\* ----------------------------------------------------------------- C8
\* step (a), from the full text and the name to the description d
NameRemoved(full, name, d) ==
    IF name = "" THEN d = full
    ELSE IF Occurs(full, "The " \o name, 1)
    THEN Trimmed(d, SubSeq(full, Len(name) + 5, Len(full)))
    ELSE IF Has(full, name)
    THEN \E i \in 1..Len(full) :
            /\ FirstAt(full, name, i)
            /\ Trimmed(d, SubSeq(full, 1, i - 1) \o SubSeq(full, i + Len(name), Len(full)))
    ELSE Trimmed(d, full)

\* step (b), from d to e
AbilitiesCut(d, e) ==
    IF Has(d, "Abilities:")
    THEN \E i \in 1..Len(d) :
            FirstAt(d, "Abilities:", i) /\ Trimmed(e, SubSeq(d, 1, i - 1))
    ELSE IF Occurs(d, "is given out at", 1) THEN Trimmed(e, d)
    ELSE e = d

\* step (c), from d to e
SpacesCollapsed(d, e) ==
    /\ Squeezed(e) = Squeezed(d)
    /\ \A i \in 1..Len(e) :
          IsSpace(CharAt(e, i)) =>
              /\ CharAt(e, i) = " "
              /\ 1 < i
              /\ i < Len(e)
              /\ ~IsSpace(CharAt(e, i + 1))
    /\ Cardinality(WordBreaks(e)) = Cardinality(WordBreaks(d))

C9_AllPrettyTables ==
    (pc = "tables" /\ ~AnimeHeadingPresent) =>
        /\ Range(relevant_tables) =
              {n \in Nodes(soup) : Elem(soup, n) \in {Table("prettytable")}}
        /\ StrictlyIncreasing(relevant_tables)

C9_Witness ==
    /\ pc = "tables"
    /\ ~AnimeHeadingPresent
    /\ \A n \in Nodes(soup) : Elem(soup, n) # Heading2("Indigo_League")
    /\ Len(relevant_tables) = 2
    /\ ~IsTop(relevant_tables[1])
    /\ IsTop(relevant_tables[2])

\* ----------------------------------------------------------------- C10
\* C10: every table a row of which is turned into a badge record has the
\* prettytable class.
C10_RecordsFromPrettyTables ==
    [][ Len(badges_data') > Len(badges_data)
            => Elem(soup, relevant_tables[table_idx]).cls = "prettytable" ]_vars

====
